---- MODULE Spec2Model ----
(***************************************************************************)
(* The OTP session of Hydra-Watch (src/js/otp.js, class OTPHandler): the   *)
(* code and its expiry, the simulated delivery and the resend countdown.   *)
(*                                                                         *)
(* Strings are sequences of one-character strings; a nullable field is the *)
(* empty sequence (null) or a one-element sequence holding its value.      *)
(***************************************************************************)
EXTENDS Integers, Sequences, FiniteSets

\* ------------------------------------------------------------------ bounds

\* The clock is observed at 0 and at the instants r*1500 (a delivery is due)
\* and r*1500 + 300000 - 1, + 0, + 1 ms (around the expiry of a code delivered
\* then), r \in 1..ClockRounds.
ClockRounds == 1

\* Math.random() is drawn from { k / RandSteps : k \in 0..RandSteps-1 }.
RandSteps == 2

\* sendOTP calls suspended in their delivery timeout at one time.
MaxPending == 1

\* setInterval handles the run hands out.
MaxTimers == 2

\* Where the history counter of failed attempts saturates.
MaxFailed == 1

\* generateOTP on its own draws Math.random() from { k / RandFine }, from the
\* coarse samples above, and from (900000 - 1) / 900000, the largest fraction
\* whose code differs from the one before it.
RandFine == 32

\* maskPhoneNumber on its own is applied to the 10-digit numbers made of three
\* runs of consecutive digits (3, 4 and 3 long), each run starting at one of
\* the digits 0..MaskDigits-1, and to the phone numbers of the session.
MaskDigits == 5

\* sendOTP calls suspended at one time where the calls overlap.
MaxOverlap == 2

\* ------------------------------------------------------- program constants

\* otp.js:19  5 * 60 * 1000
ExpiryMs == 300000

\* otp.js:50  setTimeout(..., 1500)
SendDelayMs == 1500

\* otp.js:48  expiresIn: 300
ExpiresInSeconds == 300

\* otp.js:11  this.resendCooldown = 60
resendCooldown == 60

\* otp.js:18  100000 + Math.random() * 900000
CodeBase == 100000

CodeSpan == 900000

\* ---------------------------------------------------------------- nullable

Null == <<>>

Some(x) == <<x>>

Val(o) == o[1]

\* ----------------------------------------------------------------- strings

DigitChars == <<"0", "1", "2", "3", "4", "5", "6", "7", "8", "9">>

\* The characters the regular-expression class [0-9] accepts.
AsciiDigits == { DigitChars[i] : i \in 1..10 }

RECURSIVE ToString(_)
\* Number.prototype.toString of a non-negative integer: decimal digits, most
\* significant first, no leading zero.
ToString(n) ==
    IF n < 10 THEN << DigitChars[n + 1] >>
    ELSE Append(ToString(n \div 10), DigitChars[(n % 10) + 1])

\* String.prototype.substring(from, to), 0-based, to exclusive, clamped.
Substring(s, from, to) ==
    LET lo == IF from > Len(s) THEN Len(s) ELSE from
        hi == IF to > Len(s) THEN Len(s) ELSE to
    IN  IF lo >= hi THEN <<>> ELSE SubSeq(s, lo + 1, hi)

RECURSIVE MatchDigitRun(_, _, _)
\* The matcher of [0-9]{n} from 1-based position i of s: the position after
\* the run, or 0 when fewer than n class characters follow.
MatchDigitRun(s, i, n) ==
    IF n = 0 THEN i
    ELSE IF i > Len(s) THEN 0
    ELSE IF s[i] \in AsciiDigits THEN MatchDigitRun(s, i + 1, n - 1)
    ELSE 0

\* The pattern without its $ anchor: /^[0-9]{10}/.
validatePhoneNumber_NoEndAnchor(phone) ==
    MatchDigitRun(phone, 1, 10) # 0

\* /^[0-9]{10}$/.test(phone): no 'm' flag, so ^ is position 1 and $ is the end
\* of the input.
validatePhoneNumber(phone) ==
    LET after == MatchDigitRun(phone, 1, 10)
    IN  after # 0 /\ after = Len(phone) + 1

\* The mask that keeps the first four characters: substring(0, 4).
maskPhoneNumber_KeepsFour(phone) ==
    IF Len(phone) < 10 THEN phone
    ELSE Substring(phone, 0, 4) \o <<"*", "*", "*", "*">> \o Substring(phone, 7, Len(phone))

\* otp.js:98-101
maskPhoneNumber(phone) ==
    IF Len(phone) < 10 THEN phone
    ELSE Substring(phone, 0, 3) \o <<"*", "*", "*", "*">> \o Substring(phone, 7, Len(phone))

\* ------------------------------------------------------------------ inputs

PhoneValidA == <<"0", "8", "1", "1", "2", "3", "4", "5", "6", "7">>

PhoneValidB == <<"0", "9", "9", "8", "7", "6", "5", "4", "3", "2">>

PhoneShort == <<"0", "8", "1", "1", "2", "3", "4", "5", "6">>

PhoneLong == <<"0", "8", "1", "1", "2", "3", "4", "5", "6", "7", "8">>

PhoneLetter == <<"0", "8", "1", "1", "2", "a", "4", "5", "6", "7">>

\* Ten characters, the sixth the Arabic-Indic digit three (U+0663), written as
\* one token: a digit, but not one of [0-9].
PhoneArabic == <<"0", "8", "1", "1", "2", "U+0663", "4", "5", "6", "7">>

PhoneEmpty == <<>>

Phones ==
    { PhoneValidA, PhoneValidB, PhoneShort, PhoneLong, PhoneLetter, PhoneArabic,
      PhoneEmpty }

\* The n consecutive digits from d on, wrapping after 9.
DigitRun(d, n) == [ i \in 1..n |-> DigitChars[((d + i - 1) % 10) + 1] ]

MaskInputs ==
    Phones \cup { DigitRun(a, 3) \o DigitRun(b, 4) \o DigitRun(c, 3) :
                      a \in 0..(MaskDigits - 1), b \in 0..(MaskDigits - 1),
                      c \in 0..(MaskDigits - 1) }

\* Math.random() as the fractions <<num, den>> in [0, 1).
RandomSamples == { <<k, RandSteps>> : k \in 0..(RandSteps - 1) }

FineSamples ==
    { <<k, RandFine>> : k \in 0..(RandFine - 1) }
        \cup RandomSamples \cup { <<CodeSpan - 1, CodeSpan>> }

\* Math.floor(Math.random() * 900000): the offset 100000 dropped.
RandomCode_NoBase(r) ==
    LET num == r[1]
        den == r[2]
    IN  num * (CodeSpan \div den) + (num * (CodeSpan % den)) \div den

\* Math.floor(100000 + r * 900000) for r = num/den, in integers that stay
\* below 2^31: floor(num * 900000 / den). (In double arithmetic the largest
\* value of Math.random(), 1 - 2^-53, gives 999999.99999999988..., so the
\* rounding of the product and of the sum never reaches 1000000.)
RandomCode(r) ==
    LET num == r[1]
        den == r[2]
    IN  CodeBase + num * (CodeSpan \div den) + (num * (CodeSpan % den)) \div den

Codes == { ToString(RandomCode(r)) : r \in RandomSamples }

\* What a user may type into the OTP field.
Entered == Codes \cup { <<"0", "0", "0", "0", "0", "0">> }

Instants ==
    { 0 } \cup UNION { { r * SendDelayMs,
                         r * SendDelayMs + ExpiryMs - 1,
                         r * SendDelayMs + ExpiryMs,
                         r * SendDelayMs + ExpiryMs + 1 } : r \in 1..ClockRounds }

LastInstant == ClockRounds * SendDelayMs + ExpiryMs + 1

\* ---------------------------------------------------------------- messages

MsgInvalidPhone == <<"Invalid phone number format. Please enter a 10-digit number.">>

MsgNoOtp == <<"No OTP has been generated. Please request a new OTP.">>

MsgExpired == <<"OTP has expired. Please request a new OTP.">>

MsgVerified == <<"OTP verified successfully!">>

MsgInvalidOtp == <<"Invalid OTP. Please try again.">>

MsgSent(phone) == <<"OTP sent to ">> \o maskPhoneNumber(phone)

\* ------------------------------------------------------------------- state

VARIABLES
    now,                \* Date.now(), in ms
    generatedOTP,       \* this.generatedOTP: Null or Some(code string)
    otpExpiry,          \* this.otpExpiry: Null or Some(ms)
    countdownInterval,  \* this.countdownInterval: Null or Some(interval id)
    pending,            \* sendOTP calls waiting in setTimeout, in firing order
    intervals,          \* the active setInterval timers: id -> its closure's timeLeft
    nextTimer,          \* the id the next setInterval returns
    display,            \* displayElement.textContent: Null or Some(number)
    completions,        \* how often onComplete has been invoked
    shown,              \* history: the values written to displayElement.textContent
                        \* since the last startCountdown, in order
    strays,             \* history: the timers that fired while the session held
                        \* another handle, or none
    done,               \* history: the timers whose onComplete ran, in order
    rearmed,            \* history: the timers startCountdown cleared while they ran
    ret,                \* the record of the call the last step made or settled, or NoRet
    issued,             \* history: Null or Some([code, at]) of the last generateOTP
    previous,           \* history: Null or Some(code) of the generateOTP before it
    consumed,           \* history: the last generated code was verified successfully
    failed,             \* history: mismatches since the last generateOTP (saturating)
    lapsed,             \* history: verifyOTP found the last generated code expired
    raced,              \* history: the sendOTP that generated the last code was
                        \* invoked before the generation before it
    noted,              \* history: Null while the session is not observed, or
                        \* Some([phone, call]): the phone the last code was
                        \* requested for, and one earlier verifyOTP call at this
                        \* reading of the clock, kept for comparison
    sendOtpBtnDisabled, \* login page: sendOtpBtn.disabled
    otpSent,            \* login page: let otpSent
    submission,         \* login page: how far the last submit of loginForm went
                        \* and the otpResult.success it got
    session             \* login page: sessionStorage holds hydra_session

vars == << now, generatedOTP, otpExpiry, countdownInterval, pending, intervals,
           nextTimer, display, completions, shown, strays, done, rearmed, ret,
           issued, previous, consumed, failed, lapsed, raced, noted,
           sendOtpBtnDisabled,
           otpSent, submission, session >>

otpVars == << generatedOTP, otpExpiry >>

countdownVars ==
    << countdownInterval, intervals, nextTimer, display, completions, shown, strays,
       done, rearmed >>

historyVars == << issued, previous, consumed, failed, lapsed, raced, noted >>

formVars == << otpSent, submission, session >>

pageVars == << sendOtpBtnDisabled, otpSent, submission, session >>

\* part_000:787-859: a submit of loginForm ends at one of its returns ("invalid",
\* "notSent", "noOtp", "otpFailed", "noUser", "badPassword") or stores the
\* session ("loggedIn"); otpResult is Null when it did not call verifyOTP;
\* retry says that the submit before it ended at "noUser" or "badPassword".
Submission(stage, otpResult, retry) ==
    [ stage |-> stage, otpResult |-> otpResult, retry |-> retry ]

NoSubmission == Submission("none", Null, FALSE)

\* The session's code state as a call finds it.
Before ==
    [ generatedOTP |-> generatedOTP, otpExpiry |-> otpExpiry,
      consumed |-> consumed, failed |-> failed ]

\* The record of a call: how its outcome reached the caller ("returned",
\* "pending" for a promise not yet settled, "resolved", "rejected"), the fields
\* of the result object, the argument, and the code state the call found.
Outcome(op, how, success, message, expiresIn, arg) ==
    [ op |-> op, how |-> how, success |-> success, message |-> message,
      expiresIn |-> expiresIn, arg |-> arg, before |-> Before ]

NoRet ==
    [ op |-> "none", how |-> "none", success |-> FALSE, message |-> <<>>,
      expiresIn |-> Null, arg |-> <<>>, before |-> <<>> ]

\* The state after new OTPHandler() and the page's set-up, the session observed
\* (notes = NoNotes) or not (notes = Null).
InitWith(notes) ==
    /\ now = 0
    /\ generatedOTP = Null
    /\ otpExpiry = Null
    /\ countdownInterval = Null
    /\ pending = <<>>
    /\ intervals = <<>>
    /\ nextTimer = 1
    /\ display = Null
    /\ completions = 0
    /\ shown = <<>>
    /\ strays = {}
    /\ done = <<>>
    /\ rearmed = {}
    /\ ret = NoRet
    /\ issued = Null
    /\ previous = Null
    /\ consumed = FALSE
    /\ failed = 0
    /\ lapsed = FALSE
    /\ raced = FALSE
    /\ noted = notes
    /\ sendOtpBtnDisabled = FALSE
    /\ otpSent = FALSE
    /\ submission = NoSubmission
    /\ session = FALSE

Init == InitWith(Null)

\* The notes of an observed session.
Notes(phone, call) == Some([ phone |-> phone, call |-> call ])

NoNotes == Notes(Null, Null)

\* The notes after a generateOTP made for that phone (Null: for none).
NotePhone(phone) ==
    IF noted = Null THEN Null ELSE Notes(phone, Val(noted).call)

\* The notes with that verifyOTP call kept.
NoteCall(observation) ==
    Notes(Val(noted).phone, Some(observation))

\* The notes after the clock moved: no later call reads the clock the kept
\* call read.
ForgetCall ==
    IF noted = Null THEN Null ELSE Notes(Val(noted).phone, Null)

\* ------------------------------------------------------------ generateOTP

\* A validity window of 5 * 1000 ms: the factor 60 dropped.
ExpiryOf_FiveSeconds(t) ==
    t + 5 * 1000

\* otp.js:19  Date.now() + (5 * 60 * 1000)
ExpiryOf(t) ==
    t + ExpiryMs

\* otp.js:17-21: a call otpHandler.generateOTP() on its own; ret.message holds
\* the string it returns.
GenerateOTP(r) ==
    LET otp == ToString(RandomCode(r))
    IN  /\ generatedOTP' = Some(otp)
        /\ otpExpiry' = Some(ExpiryOf(now))
        /\ previous' = IF issued = Null THEN Null ELSE Some(Val(issued).code)
        /\ issued' = Some([ code |-> otp, at |-> now ])
        /\ consumed' = FALSE
        /\ failed' = 0
        /\ lapsed' = FALSE
        /\ raced' = FALSE
        /\ noted' = NotePhone(Null)
        /\ ret' = Outcome("generateOTP", "returned", TRUE, otp, Null, <<>>)
        /\ UNCHANGED << now, pending, countdownVars, pageVars >>

\* ------------------------------------------------------------- verifyOTP

\* !v of a nullable string: null and the empty string are falsy.
Falsy(o) ==
    o = Null \/ Val(o) = <<>>

\* A nullable number in a comparison: null converts to 0.
ToNumber(o) ==
    IF o = Null THEN 0 ELSE Val(o)

Verdict(success, message, code) ==
    [ success |-> success, message |-> message, code |-> code ]

\* verifyOTP that keeps the code after a successful verification.
verifyOTP_KeepsCode(code, expiry, t, entered) ==
    IF Falsy(code) THEN Verdict(FALSE, MsgNoOtp, code)
    ELSE IF t > ToNumber(expiry) THEN Verdict(FALSE, MsgExpired, Null)
    ELSE IF Some(entered) = code THEN Verdict(TRUE, MsgVerified, code)
    ELSE Verdict(FALSE, MsgInvalidOtp, code)

\* verifyOTP without the expiry check.
verifyOTP_NoExpiryCheck(code, expiry, t, entered) ==
    IF Falsy(code) THEN Verdict(FALSE, MsgNoOtp, code)
    ELSE IF Some(entered) = code THEN Verdict(TRUE, MsgVerified, Null)
    ELSE Verdict(FALSE, MsgInvalidOtp, code)

\* verifyOTP that keeps the code when it finds it expired.
verifyOTP_KeepsExpired(code, expiry, t, entered) ==
    IF Falsy(code) THEN Verdict(FALSE, MsgNoOtp, code)
    ELSE IF t > ToNumber(expiry) THEN Verdict(FALSE, MsgExpired, code)
    ELSE IF Some(entered) = code THEN Verdict(TRUE, MsgVerified, Null)
    ELSE Verdict(FALSE, MsgInvalidOtp, code)

\* verifyOTP that clears the code on a mismatch as well.
verifyOTP_ClearsOnMismatch(code, expiry, t, entered) ==
    IF Falsy(code) THEN Verdict(FALSE, MsgNoOtp, code)
    ELSE IF t > ToNumber(expiry) THEN Verdict(FALSE, MsgExpired, Null)
    ELSE IF Some(entered) = code THEN Verdict(TRUE, MsgVerified, Null)
    ELSE Verdict(FALSE, MsgInvalidOtp, Null)

\* verifyOTP without its first check.
verifyOTP_NoNullCheck(code, expiry, t, entered) ==
    IF t > ToNumber(expiry) THEN Verdict(FALSE, MsgExpired, Null)
    ELSE IF Some(entered) = code THEN Verdict(TRUE, MsgVerified, Null)
    ELSE Verdict(FALSE, MsgInvalidOtp, code)

\* otp.js:57-85: the result object, and this.generatedOTP after the call
\* (this.otpExpiry is assigned nowhere in verifyOTP).
verifyOTP(code, expiry, t, entered) ==
    IF Falsy(code) THEN Verdict(FALSE, MsgNoOtp, code)
    ELSE IF t > ToNumber(expiry) THEN Verdict(FALSE, MsgExpired, Null)
    ELSE IF Some(entered) = code THEN Verdict(TRUE, MsgVerified, Null)
    ELSE Verdict(FALSE, MsgInvalidOtp, code)

\* verifyOTP that stops the resend countdown when the code is accepted.
VerifyOTP_StopsCountdown(enteredOTP) ==
    LET v == verifyOTP(generatedOTP, otpExpiry, now, enteredOTP)
    IN  /\ generatedOTP' = v.code
        /\ ret' = Outcome("verifyOTP", "returned", v.success, v.message, Null, enteredOTP)
        /\ consumed' = (consumed \/ v.success)
        /\ failed' = IF v.message = MsgInvalidOtp /\ failed < MaxFailed
                     THEN failed + 1 ELSE failed
        /\ lapsed' = (lapsed \/ v.message = MsgExpired)
        /\ IF v.success /\ countdownInterval # Null
           THEN /\ intervals' = [ i \in (DOMAIN intervals) \ { Val(countdownInterval) } |->
                                    intervals[i] ]
                /\ countdownInterval' = Null
           ELSE UNCHANGED << intervals, countdownInterval >>
        /\ UNCHANGED << now, otpExpiry, pending, nextTimer, display, completions, shown,
                        strays, done, rearmed, issued, previous, raced, noted,
                        pageVars >>

\* verifyOTP that can run only when no sendOTP is waiting for its delivery.
VerifyOTP_WaitsForDelivery(enteredOTP) ==
    LET v == verifyOTP(generatedOTP, otpExpiry, now, enteredOTP)
    IN  /\ pending = <<>>
        /\ generatedOTP' = v.code
        /\ ret' = Outcome("verifyOTP", "returned", v.success, v.message, Null, enteredOTP)
        /\ consumed' = (consumed \/ v.success)
        /\ failed' = IF v.message = MsgInvalidOtp /\ failed < MaxFailed
                     THEN failed + 1 ELSE failed
        /\ lapsed' = (lapsed \/ v.message = MsgExpired)
        /\ UNCHANGED << now, otpExpiry, pending, countdownVars, issued, previous, raced,
                        noted, pageVars >>

\* What one verifyOTP call was given (the entered value, the fields and the
\* clock it read), what it returned and left in the fields, and the rest of
\* the session it ran in: the phone the code was requested for, the countdown
\* handle, and the mismatches before it.
Observation(enteredOTP, v, expiryAfter) ==
    [ entered |-> enteredOTP, code |-> generatedOTP, expiry |-> otpExpiry, at |-> now,
      success |-> v.success, message |-> v.message, codeAfter |-> v.code,
      expiryAfter |-> expiryAfter,
      phone |-> Val(noted).phone,
      countdown |-> countdownInterval, failed |-> failed ]

\* verifyOTP that, after MaxFailed mismatches on a code, drops the code and
\* accepts no value for it.
VerifyOTPCall_LocksOut(enteredOTP, note) ==
    LET v == IF generatedOTP # Null /\ failed >= MaxFailed
             THEN Verdict(FALSE, MsgInvalidOtp, Null)
             ELSE verifyOTP(generatedOTP, otpExpiry, now, enteredOTP)
    IN  /\ generatedOTP' = v.code
        /\ ret' = Outcome("verifyOTP", "returned", v.success, v.message, Null, enteredOTP)
        /\ consumed' = (consumed \/ v.success)
        /\ failed' = IF v.message = MsgInvalidOtp /\ failed < MaxFailed
                     THEN failed + 1 ELSE failed
        /\ lapsed' = (lapsed \/ v.message = MsgExpired)
        /\ UNCHANGED << now, otpExpiry, pending, countdownVars, issued, previous, raced,
                        pageVars >>
        /\ note => noted # Null
        /\ noted' = IF note THEN NoteCall(Observation(enteredOTP, v, otpExpiry')) ELSE noted

\* A call otpHandler.verifyOTP(enteredOTP); with note, the call is the one
\* kept in noted.
VerifyOTPCall(enteredOTP, note) ==
    LET v == verifyOTP(generatedOTP, otpExpiry, now, enteredOTP)
    IN  /\ generatedOTP' = v.code
        /\ ret' = Outcome("verifyOTP", "returned", v.success, v.message, Null, enteredOTP)
        /\ consumed' = (consumed \/ v.success)
        /\ failed' = IF v.message = MsgInvalidOtp /\ failed < MaxFailed
                     THEN failed + 1 ELSE failed
        /\ lapsed' = (lapsed \/ v.message = MsgExpired)
        /\ UNCHANGED << now, otpExpiry, pending, countdownVars, issued, previous, raced,
                        pageVars >>
        /\ note => noted # Null
        /\ noted' = IF note THEN NoteCall(Observation(enteredOTP, v, otpExpiry')) ELSE noted

\* A call otpHandler.verifyOTP(enteredOTP).
VerifyOTP(enteredOTP) ==
    VerifyOTPCall(enteredOTP, FALSE)

\* --------------------------------------------------------------- sendOTP

\* sendOTP that generates the code before it validates the phone number.
SendOTP_GeneratesFirst(phoneNumber) ==
    IF ~validatePhoneNumber(phoneNumber)
    THEN /\ ret' = Outcome("sendOTP", "rejected", FALSE, MsgInvalidPhone, Null, phoneNumber)
         /\ \E r \in RandomSamples :
                generatedOTP' = Some(ToString(RandomCode(r)))
         /\ otpExpiry' = Some(ExpiryOf(now))
         /\ UNCHANGED << now, pending, countdownVars, historyVars, pageVars >>
    ELSE /\ Len(pending) < MaxPending
         /\ now + SendDelayMs <= LastInstant
         /\ pending' = Append(pending, [ phone |-> phoneNumber, due |-> now + SendDelayMs ])
         /\ ret' = Outcome("sendOTP", "pending", FALSE, <<>>, Null, phoneNumber)
         /\ UNCHANGED << now, otpVars, countdownVars, historyVars, pageVars >>

\* sendOTP that calls generateOTP when it is invoked, before the timeout.
SendOTP_GeneratesAtCall(phoneNumber) ==
    IF ~validatePhoneNumber(phoneNumber)
    THEN /\ ret' = Outcome("sendOTP", "rejected", FALSE, MsgInvalidPhone, Null, phoneNumber)
         /\ UNCHANGED << now, otpVars, pending, countdownVars, historyVars, pageVars >>
    ELSE /\ Len(pending) < MaxPending
         /\ now + SendDelayMs <= LastInstant
         /\ pending' = Append(pending, [ phone |-> phoneNumber, due |-> now + SendDelayMs ])
         /\ \E r \in RandomSamples :
                generatedOTP' = Some(ToString(RandomCode(r)))
         /\ otpExpiry' = Some(ExpiryOf(now))
         /\ ret' = Outcome("sendOTP", "pending", FALSE, <<>>, Null, phoneNumber)
         /\ UNCHANGED << now, countdownVars, historyVars, pageVars >>

\* sendOTP that resolves with { success: false, message } for a bad number
\* instead of rejecting.
SendOTP_ResolvesFailure(phoneNumber) ==
    IF ~validatePhoneNumber(phoneNumber)
    THEN /\ ret' = Outcome("sendOTP", "resolved", FALSE, MsgInvalidPhone, Null, phoneNumber)
         /\ UNCHANGED << now, otpVars, pending, countdownVars, historyVars, pageVars >>
    ELSE /\ Len(pending) < MaxPending
         /\ now + SendDelayMs <= LastInstant
         /\ pending' = Append(pending, [ phone |-> phoneNumber, due |-> now + SendDelayMs ])
         /\ ret' = Outcome("sendOTP", "pending", FALSE, <<>>, Null, phoneNumber)
         /\ UNCHANGED << now, otpVars, countdownVars, historyVars, pageVars >>

\* otp.js:27-36: a call otpHandler.sendOTP(phoneNumber) up to its return: the
\* promise is rejected at once, or the delivery timeout is set. The run holds
\* at most room timeouts, each due no later than the last instant of the clock.
SendOTPWithin(phoneNumber, room) ==
    IF ~validatePhoneNumber(phoneNumber)
    THEN /\ ret' = Outcome("sendOTP", "rejected", FALSE, MsgInvalidPhone, Null, phoneNumber)
         /\ UNCHANGED << now, otpVars, pending, countdownVars, historyVars, pageVars >>
    ELSE /\ Len(pending) < room
         /\ now + SendDelayMs <= LastInstant
         /\ pending' = Append(pending, [ phone |-> phoneNumber, due |-> now + SendDelayMs ])
         /\ ret' = Outcome("sendOTP", "pending", FALSE, <<>>, Null, phoneNumber)
         /\ UNCHANGED << now, otpVars, countdownVars, historyVars, pageVars >>

\* sendOTP in a run that holds at most MaxPending delivery timeouts.
SendOTP(phoneNumber) ==
    SendOTPWithin(phoneNumber, MaxPending)

\* A delivery that leaves an outstanding code in place instead of replacing it.
Deliver_KeepsOutstanding ==
    /\ pending # <<>>
    /\ now >= Head(pending).due
    /\ \E r \in RandomSamples :
        LET otp == ToString(RandomCode(r))
        IN  /\ generatedOTP' = IF generatedOTP # Null THEN generatedOTP ELSE Some(otp)
            /\ otpExpiry' = IF generatedOTP # Null THEN otpExpiry ELSE Some(ExpiryOf(now))
            /\ previous' = IF issued = Null THEN Null ELSE Some(Val(issued).code)
            /\ issued' = Some([ code |-> otp, at |-> now ])
    /\ consumed' = FALSE
    /\ failed' = 0
    /\ lapsed' = FALSE
    /\ raced' = (issued # Null /\ Head(pending).due - SendDelayMs < Val(issued).at)
    /\ noted' = NotePhone(Some(Head(pending).phone))
    /\ ret' = Outcome("sendOTP", "resolved", TRUE, MsgSent(Head(pending).phone),
                      Some(ExpiresInSeconds), Head(pending).phone)
    /\ pending' = Tail(pending)
    /\ UNCHANGED << now, countdownVars, pageVars >>

\* A delivery whose generateOTP sets the expiry only when none is recorded
\* (this.otpExpiry = this.otpExpiry || ...).
Deliver_KeepsExpiry ==
    /\ pending # <<>>
    /\ now >= Head(pending).due
    /\ \E r \in RandomSamples :
        LET otp == ToString(RandomCode(r))
        IN  /\ generatedOTP' = Some(otp)
            /\ otpExpiry' = IF otpExpiry # Null THEN otpExpiry ELSE Some(ExpiryOf(now))
            /\ previous' = IF issued = Null THEN Null ELSE Some(Val(issued).code)
            /\ issued' = Some([ code |-> otp, at |-> now ])
    /\ consumed' = FALSE
    /\ failed' = 0
    /\ lapsed' = FALSE
    /\ raced' = (issued # Null /\ Head(pending).due - SendDelayMs < Val(issued).at)
    /\ noted' = NotePhone(Some(Head(pending).phone))
    /\ ret' = Outcome("sendOTP", "resolved", TRUE, MsgSent(Head(pending).phone),
                      Some(ExpiresInSeconds), Head(pending).phone)
    /\ pending' = Tail(pending)
    /\ UNCHANGED << now, countdownVars, pageVars >>

\* otp.js:36-50: the delivery timeout fires, at its due time or later:
\* generateOTP (otp.js:17-21), then the promise resolves. Timeouts of one delay
\* fire in the order they were set. The notification drawn by
\* showOTPNotification touches the document only.
Deliver ==
    /\ pending # <<>>
    /\ now >= Head(pending).due
    /\ \E r \in RandomSamples :
        LET otp == ToString(RandomCode(r))
        IN  /\ generatedOTP' = Some(otp)
            /\ otpExpiry' = Some(ExpiryOf(now))
            /\ previous' = IF issued = Null THEN Null ELSE Some(Val(issued).code)
            /\ issued' = Some([ code |-> otp, at |-> now ])
    /\ consumed' = FALSE
    /\ failed' = 0
    /\ lapsed' = FALSE
    /\ raced' = (issued # Null /\ Head(pending).due - SendDelayMs < Val(issued).at)
    /\ noted' = NotePhone(Some(Head(pending).phone))
    /\ ret' = Outcome("sendOTP", "resolved", TRUE, MsgSent(Head(pending).phone),
                      Some(ExpiresInSeconds), Head(pending).phone)
    /\ pending' = Tail(pending)
    /\ UNCHANGED << now, countdownVars, pageVars >>

\* -------------------------------------------------------- maskPhoneNumber

\* otp.js:98-101: a call otpHandler.maskPhoneNumber(phone) on its own;
\* ret.message holds the string it returns.
MaskPhoneNumber(phone) ==
    /\ ret' = Outcome("maskPhoneNumber", "returned", TRUE, maskPhoneNumber(phone), Null, phone)
    /\ UNCHANGED << now, otpVars, pending, countdownVars, historyVars, pageVars >>

\* ------------------------------------------------------------- countdown

\* clearInterval(handle): a null or stale handle clears nothing.
ClearInterval(active, handle) ==
    IF handle = Null THEN active
    ELSE [ i \in (DOMAIN active) \ { Val(handle) } |-> active[i] ]

\* startCountdown that sets the new interval without clearing the one held.
StartCountdown_NoClear ==
    /\ nextTimer <= MaxTimers
    /\ intervals' = [ i \in (DOMAIN intervals) \cup { nextTimer } |->
                         IF i = nextTimer THEN resendCooldown ELSE intervals[i] ]
    /\ display' = Some(resendCooldown)
    /\ shown' = << resendCooldown >>
    /\ rearmed' = IF countdownInterval # Null /\ Val(countdownInterval) \in DOMAIN intervals
                  THEN rearmed \cup { Val(countdownInterval) }
                  ELSE rearmed
    /\ countdownInterval' = Some(nextTimer)
    /\ nextTimer' = nextTimer + 1
    /\ ret' = NoRet
    /\ UNCHANGED << now, otpVars, pending, completions, strays, done, historyVars, pageVars >>

\* otp.js:161-179: startCountdown(displayElement, onComplete), onComplete given
\* as by the login page (part_000:773).
StartCountdown ==
    /\ nextTimer <= MaxTimers
    /\ LET cleared == IF countdownInterval # Null
                      THEN ClearInterval(intervals, countdownInterval)
                      ELSE intervals
       IN  intervals' = [ i \in (DOMAIN cleared) \cup { nextTimer } |->
                            IF i = nextTimer THEN resendCooldown ELSE cleared[i] ]
    /\ display' = Some(resendCooldown)
    /\ shown' = << resendCooldown >>
    /\ rearmed' = IF countdownInterval # Null /\ Val(countdownInterval) \in DOMAIN intervals
                  THEN rearmed \cup { Val(countdownInterval) }
                  ELSE rearmed
    /\ countdownInterval' = Some(nextTimer)
    /\ nextTimer' = nextTimer + 1
    /\ ret' = NoRet
    /\ UNCHANGED << now, otpVars, pending, completions, strays, done, historyVars, pageVars >>

\* The interval callback with the test timeLeft < 0 in place of timeLeft <= 0.
Tick_StopsBelowZero(id) ==
    /\ id \in DOMAIN intervals
    /\ LET timeLeft == intervals[id] - 1
           ticked == [ intervals EXCEPT ![id] = timeLeft ]
       IN  /\ display' = Some(timeLeft)
           /\ shown' = Append(shown, timeLeft)
           /\ strays' = IF countdownInterval = Some(id) THEN strays
                         ELSE strays \cup { id }
           /\ IF timeLeft < 0
              THEN /\ intervals' = ClearInterval(ticked, countdownInterval)
                   /\ completions' = completions + 1
                   /\ done' = Append(done, id)
                   /\ sendOtpBtnDisabled' = FALSE
              ELSE /\ intervals' = ticked
                   /\ UNCHANGED << completions, done, sendOtpBtnDisabled >>
    /\ ret' = NoRet
    /\ UNCHANGED << now, otpVars, pending, countdownInterval, nextTimer, rearmed,
                    historyVars, formVars >>

\* otp.js:170-178: the interval callback of timer id fires.
Tick(id) ==
    /\ id \in DOMAIN intervals
    /\ LET timeLeft == intervals[id] - 1
           ticked == [ intervals EXCEPT ![id] = timeLeft ]
       IN  /\ display' = Some(timeLeft)
           /\ shown' = Append(shown, timeLeft)
           /\ strays' = IF countdownInterval = Some(id) THEN strays
                         ELSE strays \cup { id }
           /\ IF timeLeft <= 0
              THEN /\ intervals' = ClearInterval(ticked, countdownInterval)
                   /\ completions' = completions + 1
                   /\ done' = Append(done, id)
                   /\ sendOtpBtnDisabled' = FALSE
              ELSE /\ intervals' = ticked
                   /\ UNCHANGED << completions, done, sendOtpBtnDisabled >>
    /\ ret' = NoRet
    /\ UNCHANGED << now, otpVars, pending, countdownInterval, nextTimer, rearmed,
                    historyVars, formVars >>

\* stopCountdown that forgets the handle without clearInterval.
StopCountdown_KeepsTimer ==
    /\ countdownInterval' = Null
    /\ ret' = NoRet
    /\ UNCHANGED << now, otpVars, pending, intervals, nextTimer, display, completions,
                    shown, strays, done, rearmed, historyVars, pageVars >>

\* otp.js:184-189
StopCountdown ==
    /\ IF countdownInterval # Null
       THEN /\ intervals' = ClearInterval(intervals, countdownInterval)
            /\ countdownInterval' = Null
       ELSE UNCHANGED << intervals, countdownInterval >>
    /\ ret' = NoRet
    /\ UNCHANGED << now, otpVars, pending, nextTimer, display, completions, shown,
                    strays, done, rearmed, historyVars, pageVars >>

\* ------------------------------------------------------------------ clock

\* Date.now() moves on to a later instant.
Advance ==
    /\ \E t \in Instants : t > now /\ now' = t
    /\ ret' = NoRet
    /\ noted' = ForgetCall
    /\ UNCHANGED << otpVars, pending, countdownVars, issued, previous, consumed, failed,
                    lapsed, raced, pageVars >>

\* ------------------------------------------------------------ login page

\* What findUser and verifyPassword find for the submitted credentials.
Accounts == { "none", "wrongPassword", "ok" }

\* The click handler that leaves the button enabled while sendOTP is pending.
SendOtpBtnClick_KeepsEnabled(phone) ==
    /\ ~sendOtpBtnDisabled
    /\ IF phone = <<>>
       THEN /\ ret' = NoRet
            /\ UNCHANGED << pending, sendOtpBtnDisabled >>
       ELSE IF ~validatePhoneNumber(phone)
       THEN /\ ret' = Outcome("sendOTP", "rejected", FALSE, MsgInvalidPhone, Null, phone)
            /\ sendOtpBtnDisabled' = FALSE
            /\ UNCHANGED pending
       ELSE /\ Len(pending) < MaxOverlap
            /\ now + SendDelayMs <= LastInstant
            /\ nextTimer + Len(pending) <= MaxTimers
            /\ pending' = Append(pending, [ phone |-> phone, due |-> now + SendDelayMs ])
            /\ ret' = Outcome("sendOTP", "pending", FALSE, <<>>, Null, phone)
            /\ sendOtpBtnDisabled' = FALSE
    /\ UNCHANGED << now, otpVars, countdownVars, historyVars, formVars >>

\* part_000:753-765, 778-784: a click on sendOtpBtn, which a disabled button
\* does not deliver, up to the await of sendOTP (otp.js:27-36). With an empty
\* phone field the handler returns at once. A rejected promise resumes the
\* handler in its catch block before any other event is handled, so the
\* button, disabled at line 762, is enabled again when the step ends. The run
\* holds at most MaxOverlap delivery timeouts and keeps an interval handle for
\* the countdown of each.
SendOtpBtnClick(phone) ==
    /\ ~sendOtpBtnDisabled
    /\ IF phone = <<>>
       THEN /\ ret' = NoRet
            /\ UNCHANGED << pending, sendOtpBtnDisabled >>
       ELSE IF ~validatePhoneNumber(phone)
       THEN /\ ret' = Outcome("sendOTP", "rejected", FALSE, MsgInvalidPhone, Null, phone)
            /\ sendOtpBtnDisabled' = FALSE
            /\ UNCHANGED pending
       ELSE /\ Len(pending) < MaxOverlap
            /\ now + SendDelayMs <= LastInstant
            /\ nextTimer + Len(pending) <= MaxTimers
            /\ pending' = Append(pending, [ phone |-> phone, due |-> now + SendDelayMs ])
            /\ ret' = Outcome("sendOTP", "pending", FALSE, <<>>, Null, phone)
            /\ sendOtpBtnDisabled' = TRUE
    /\ UNCHANGED << now, otpVars, countdownVars, historyVars, formVars >>

\* The delivery after which the click handler starts no countdown.
SendOtpDelivered_NoCountdown ==
    /\ pending # <<>>
    /\ now >= Head(pending).due
    /\ \E r \in RandomSamples :
        LET otp == ToString(RandomCode(r))
        IN  /\ generatedOTP' = Some(otp)
            /\ otpExpiry' = Some(ExpiryOf(now))
            /\ previous' = IF issued = Null THEN Null ELSE Some(Val(issued).code)
            /\ issued' = Some([ code |-> otp, at |-> now ])
    /\ consumed' = FALSE
    /\ failed' = 0
    /\ lapsed' = FALSE
    /\ raced' = (issued # Null /\ Head(pending).due - SendDelayMs < Val(issued).at)
    /\ noted' = NotePhone(Some(Head(pending).phone))
    /\ ret' = Outcome("sendOTP", "resolved", TRUE, MsgSent(Head(pending).phone),
                      Some(ExpiresInSeconds), Head(pending).phone)
    /\ pending' = Tail(pending)
    /\ otpSent' = TRUE
    /\ UNCHANGED << now, countdownVars, sendOtpBtnDisabled, submission, session >>

\* otp.js:36-50 and part_000:765-777, 783: the delivery timeout of a sendOTP
\* made by the click handler fires (generateOTP, resolve), and the handler
\* resumes after its await before any other event is handled: result.success
\* is true, so it sets otpSent and calls startCountdown (otp.js:161-169) with
\* the callback that enables the button.
SendOtpDelivered ==
    /\ pending # <<>>
    /\ now >= Head(pending).due
    /\ nextTimer <= MaxTimers
    /\ \E r \in RandomSamples :
        LET otp == ToString(RandomCode(r))
        IN  /\ generatedOTP' = Some(otp)
            /\ otpExpiry' = Some(ExpiryOf(now))
            /\ previous' = IF issued = Null THEN Null ELSE Some(Val(issued).code)
            /\ issued' = Some([ code |-> otp, at |-> now ])
    /\ consumed' = FALSE
    /\ failed' = 0
    /\ lapsed' = FALSE
    /\ raced' = (issued # Null /\ Head(pending).due - SendDelayMs < Val(issued).at)
    /\ noted' = NotePhone(Some(Head(pending).phone))
    /\ ret' = Outcome("sendOTP", "resolved", TRUE, MsgSent(Head(pending).phone),
                      Some(ExpiresInSeconds), Head(pending).phone)
    /\ pending' = Tail(pending)
    /\ otpSent' = TRUE
    /\ LET cleared == IF countdownInterval # Null
                      THEN ClearInterval(intervals, countdownInterval)
                      ELSE intervals
       IN  intervals' = [ i \in (DOMAIN cleared) \cup { nextTimer } |->
                            IF i = nextTimer THEN resendCooldown ELSE cleared[i] ]
    /\ display' = Some(resendCooldown)
    /\ shown' = << resendCooldown >>
    /\ rearmed' = IF countdownInterval # Null /\ Val(countdownInterval) \in DOMAIN intervals
                  THEN rearmed \cup { Val(countdownInterval) }
                  ELSE rearmed
    /\ countdownInterval' = Some(nextTimer)
    /\ nextTimer' = nextTimer + 1
    /\ UNCHANGED << now, completions, strays, done, sendOtpBtnDisabled, submission,
                    session >>

\* The stage a submit reaches: validateForm, otpSent, the otp field, the
\* verdict of verifyOTP, findUser, verifyPassword.
SubmitStage(valid, otp, verified, account) ==
    IF ~valid THEN "invalid"
    ELSE IF ~otpSent THEN "notSent"
    ELSE IF otp = <<>> THEN "noOtp"
    ELSE IF ~verified THEN "otpFailed"
    ELSE IF account = "none" THEN "noUser"
    ELSE IF account = "wrongPassword" THEN "badPassword"
    ELSE "loggedIn"

\* The submit handler that looks the user up before it verifies the OTP, and
\* verifies only for a user it has found.
LoginFormSubmit_LooksUpFirst(valid, otp, account) ==
    LET called == valid /\ otpSent /\ otp # <<>> /\ account # "none"
        v == verifyOTP(generatedOTP, otpExpiry, now, otp)
        stage == IF valid /\ otpSent /\ otp # <<>> /\ account = "none" THEN "noUser"
                 ELSE SubmitStage(valid, otp, v.success, account)
    IN  /\ submission' = Submission(stage,
                                    IF called THEN Some(v.success) ELSE Null,
                                    submission.stage \in { "noUser", "badPassword" })
        /\ session' = (session \/ stage = "loggedIn")
        /\ IF called
           THEN /\ generatedOTP' = v.code
                /\ ret' = Outcome("verifyOTP", "returned", v.success, v.message, Null, otp)
                /\ consumed' = (consumed \/ v.success)
                /\ failed' = IF v.message = MsgInvalidOtp /\ failed < MaxFailed
                             THEN failed + 1 ELSE failed
                /\ lapsed' = (lapsed \/ v.message = MsgExpired)
           ELSE /\ ret' = NoRet
                /\ UNCHANGED << generatedOTP, consumed, failed, lapsed >>
        /\ UNCHANGED << now, otpExpiry, pending, countdownVars, issued, previous, raced,
                        noted, sendOtpBtnDisabled, otpSent >>

\* part_000:787-859: a submit of loginForm: valid is the verdict of
\* validateForm, otp the value of the otp field, account what findUser and
\* verifyPassword find. The handler calls verifyOTP (otp.js:57-85) once the
\* form is valid, an OTP was sent and the field is not empty.
LoginFormSubmit(valid, otp, account) ==
    LET called == valid /\ otpSent /\ otp # <<>>
        v == verifyOTP(generatedOTP, otpExpiry, now, otp)
        stage == SubmitStage(valid, otp, v.success, account)
    IN  /\ submission' = Submission(stage,
                                    IF called THEN Some(v.success) ELSE Null,
                                    submission.stage \in { "noUser", "badPassword" })
        /\ session' = (session \/ stage = "loggedIn")
        /\ IF called
           THEN /\ generatedOTP' = v.code
                /\ ret' = Outcome("verifyOTP", "returned", v.success, v.message, Null, otp)
                /\ consumed' = (consumed \/ v.success)
                /\ failed' = IF v.message = MsgInvalidOtp /\ failed < MaxFailed
                             THEN failed + 1 ELSE failed
                /\ lapsed' = (lapsed \/ v.message = MsgExpired)
           ELSE /\ ret' = NoRet
                /\ UNCHANGED << generatedOTP, consumed, failed, lapsed >>
        /\ UNCHANGED << now, otpExpiry, pending, countdownVars, issued, previous, raced,
                        noted, sendOtpBtnDisabled, otpSent >>

\* ---------------------------------------------------------- specification

\* The operations on the code: requestCode, its delivery, verifyCode, the clock.
OtpNext ==
    \/ \E phoneNumber \in Phones : SendOTP(phoneNumber)
    \/ Deliver
    \/ \E enteredOTP \in Entered : VerifyOTP(enteredOTP)
    \/ Advance

\* The operations on the resend countdown.
CountdownNext ==
    \/ StartCountdown
    \/ \E id \in 1..MaxTimers : Tick(id)
    \/ StopCountdown

Next ==
    \/ OtpNext
    \/ CountdownNext

\* The whole session.
Spec == Init /\ [][Next]_vars

\* The session with no countdown ever started: the countdown operations write
\* none of now, generatedOTP, otpExpiry, pending or the history variables.
OtpSpec == Init /\ [][OtpNext]_vars

\* requestCode alone: the calls of sendOTP, their deliveries and the clock.
SendNext ==
    \/ \E phoneNumber \in Phones : SendOTP(phoneNumber)
    \/ Deliver
    \/ Advance

\* requestCode under the scheduling of the event loop: the clock runs on, and a
\* delivery timeout that is due fires. verifyOTP and the countdown write
\* neither now nor pending, so they can neither delay nor lose a delivery.
FairSendSpec ==
    Init /\ [][SendNext]_vars /\ WF_vars(Advance) /\ WF_vars(Deliver)

\* generateOTP alone, call after call, over the fine samples of Math.random().
GenNext ==
    \E r \in FineSamples : GenerateOTP(r)

GenSpec == Init /\ [][GenNext]_vars

\* Observed sessions that request a code for either phone, with requests
\* overlapping, start the countdown and verify, one verifyOTP call kept for
\* comparison with the later ones.
VerdictNext ==
    \/ \E phoneNumber \in { PhoneValidA, PhoneValidB } :
           SendOTPWithin(phoneNumber, MaxOverlap)
    \/ Deliver
    \/ \E enteredOTP \in Entered, note \in BOOLEAN : VerifyOTPCall(enteredOTP, note)
    \/ StartCountdown
    \/ Advance

VerdictSpec == InitWith(NoNotes) /\ [][VerdictNext]_vars

\* Overlapping requestCode calls with a valid phone number: up to MaxOverlap
\* deliveries under way at one time.
OverlapNext ==
    \/ SendOTPWithin(PhoneValidA, MaxOverlap)
    \/ Deliver
    \/ \E enteredOTP \in Entered : VerifyOTP(enteredOTP)
    \/ Advance

OverlapSpec == Init /\ [][OverlapNext]_vars

\* maskPhoneNumber called in a session that holds a code and a countdown.
MaskNext ==
    \/ \E phone \in MaskInputs : MaskPhoneNumber(phone)
    \/ \E r \in RandomSamples : GenerateOTP(r)
    \/ StartCountdown

MaskSpec == Init /\ [][MaskNext]_vars

\* The send button of the login page: its clicks, the deliveries that resume
\* the click handler, the ticks of the countdown it starts, and the clock.
ButtonNext ==
    \/ \E phone \in Phones : SendOtpBtnClick(phone)
    \/ SendOtpDelivered
    \/ \E id \in 1..MaxTimers : Tick(id)
    \/ Advance

\* The login page: the send button and the submits of the form.
PageNext ==
    \/ ButtonNext
    \/ \E valid \in BOOLEAN, otp \in Entered \cup { <<>> }, account \in Accounts :
            LoginFormSubmit(valid, otp, account)

PageSpec == Init /\ [][PageNext]_vars

ButtonSpec == Init /\ [][ButtonNext]_vars

\* The send button under the scheduling of the event loop: the clock runs on,
\* a delivery timeout that is due fires, and an active interval keeps firing.
FairButtonSpec ==
    /\ Init /\ [][ButtonNext]_vars
    /\ WF_vars(Advance)
    /\ WF_vars(SendOtpDelivered)
    /\ \A id \in 1..MaxTimers : WF_vars(Tick(id))

\* The resend countdown alone: startCountdown, the ticks of its timers and
\* stopCountdown read and write the countdown state only.
CountdownSpec == Init /\ [][CountdownNext]_vars

\* -------------------------------------------------------------- properties

\* The step just taken was a call of verifyOTP: ret is its record. (Every
\* other step sets ret to the record of its own call, or to NoRet.)
IsVerify == ret.op = "verifyOTP"

\* A string of exactly 10 characters, each one of the ASCII digits.
IsTenAsciiDigits(s) ==
    /\ Len(s) = 10
    /\ \A i \in 1..Len(s) : s[i] \in {"0", "1", "2", "3", "4", "5", "6", "7", "8", "9"}

\* The validity window of the claims, in ms.
WindowMs == ExpiresInSeconds * 1000

\* C1: verifyOTP returns success only when the entered value is the code of
\* the most recent generation, the clock is not past that code's expiry, and
\* no earlier successful verifyOTP has consumed that code.
C1_SuccessOnlyForCurrentCode ==
    (IsVerify /\ ret.success) =>
        /\ issued # Null
        /\ ret.arg = Val(issued).code
        /\ ret.before.generatedOTP = Some(Val(issued).code)
        /\ now <= Val(ret.before.otpExpiry)
        /\ ~ret.before.consumed

C1_Witness ==
    IsVerify /\ ret.success

\* C2: once the last generated code has been consumed by a successful
\* verifyOTP, every verifyOTP before the next delivery fails, and one of that
\* same code fails with the no-OTP message.
C2_SingleUse ==
    (IsVerify /\ ret.before.consumed) =>
        /\ ~ret.success
        /\ (ret.arg = Val(issued).code => ret.message = MsgNoOtp)

C2_Witness ==
    /\ IsVerify
    /\ ret.before.consumed
    /\ ret.arg = Val(issued).code
    /\ ret.message = MsgNoOtp

\* The verifyOTP just made entered the code of the earlier of two successive
\* sendOTP calls: the later call is still in its delivery timeout, or has
\* resolved.
VerifiedFirstOfTwo ==
    /\ IsVerify
    /\ \/ (pending # <<>> /\ issued # Null /\ ret.arg = Val(issued).code)
       \/ (previous # Null /\ ret.arg = Val(previous))

\* C3 as stated: after the second of two successive sendOTP calls, verifyOTP of
\* the first call's code fails with the mismatch or the no-OTP message.
C3_FirstCodeDeadAfterSecondCall ==
    VerifiedFirstOfTwo =>
        (~ret.success /\ ret.message \in { MsgInvalidOtp, MsgNoOtp })

\* C3, amended: once the second of two successive sendOTP calls has resolved
\* with a code different from the first call's, verifyOTP of the first call's
\* code fails: with the no-OTP message if the code state is cleared, with the
\* expired message if the second code's window has passed, else with the
\* mismatch message.
C3_FirstCodeDeadAfterSecondResolves ==
    (IsVerify /\ previous # Null /\ ret.arg = Val(previous)
              /\ Val(previous) # Val(issued).code) =>
        /\ ~ret.success
        /\ ret.message =
              IF ret.before.generatedOTP = Null THEN MsgNoOtp
              ELSE IF now > Val(issued).at + WindowMs THEN MsgExpired
              ELSE MsgInvalidOtp

C3_Witness ==
    /\ IsVerify
    /\ previous # Null
    /\ ret.arg = Val(previous)
    /\ Val(previous) # Val(issued).code
    /\ ret.message = MsgInvalidOtp

\* C4 as stated: generatedOTP and otpExpiry are both null or both set.
C4_CodeAndExpiryTogether ==
    (generatedOTP = Null) <=> (otpExpiry = Null)

\* C5: verifyOTP of the outstanding code 1 ms after generation + 300 s fails
\* with the expired message, and 1 ms before generation + 300 s succeeds.
C5_ExpiryBoundary ==
    (IsVerify /\ ret.before.generatedOTP # Null
              /\ ret.arg = Val(ret.before.generatedOTP)) =>
        /\ ret.before.otpExpiry = Some(Val(issued).at + WindowMs)
        /\ (now = Val(issued).at + WindowMs + 1 =>
                (~ret.success /\ ret.message = MsgExpired))
        /\ (now = Val(issued).at + WindowMs - 1 => ret.success)

C5_Witness ==
    /\ IsVerify
    /\ ret.success
    /\ now = Val(issued).at + WindowMs - 1

C5_WitnessExpired ==
    /\ IsVerify
    /\ ret.message = MsgExpired
    /\ ret.before.generatedOTP = Some(ret.arg)
    /\ now = Val(issued).at + WindowMs + 1

\* A verifyOTP made with a code outstanding and the clock past its expiry.
VerifiedLate ==
    /\ IsVerify
    /\ ret.before.generatedOTP # Null
    /\ now > Val(ret.before.otpExpiry)

C7_MismatchKeepsCode ==
    (IsVerify /\ ret.before.generatedOTP # Null
              /\ now <= Val(ret.before.otpExpiry)) =>
        IF ret.arg # Val(ret.before.generatedOTP)
        THEN /\ ~ret.success
             /\ ret.message = MsgInvalidOtp
             /\ generatedOTP = ret.before.generatedOTP
             /\ otpExpiry = ret.before.otpExpiry
        ELSE ret.success

C7_Witness ==
    /\ IsVerify
    /\ ret.success
    /\ ret.before.failed = MaxFailed

\* C8: with no code outstanding, verifyOTP of any value fails with the no-OTP
\* message and changes nothing of the session.
C8_NoCodeRequested ==
    [][ (ret'.op = "verifyOTP" /\ generatedOTP = Null) =>
            /\ ~ret'.success
            /\ ret'.message = MsgNoOtp
            /\ UNCHANGED << otpVars, pending, countdownVars >> ]_vars

C8_Witness ==
    /\ IsVerify
    /\ ret.message = MsgNoOtp
    /\ ret.before.generatedOTP = Null
    /\ issued = Null
    /\ pending # <<>>

\* What sendOTP may answer for its argument.
SendOtpAnswer ==
    ret.op = "sendOTP" =>
        IF IsTenAsciiDigits(ret.arg)
        THEN \/ ret.how = "pending"
             \/ /\ ret.how = "resolved"
                /\ ret.success
                /\ ret.expiresIn = Some(300)
        ELSE /\ ret.how = "rejected"
             /\ ~ret.success
             /\ ret.message = MsgInvalidPhone

\* The step just taken resolved the promise of the oldest sendOTP under way.
SendResolved ==
    /\ ret.op = "sendOTP"
    /\ ret.how = "resolved"
    /\ ret.success
    /\ ret.expiresIn = Some(300)

\* C9: sendOTP of 10 ASCII digits is never rejected and in the end resolves
\* with success and expiresIn 300; sendOTP of any other string is rejected
\* with the invalid-phone message.
C9_SendResolvesIffTenDigits ==
    /\ []SendOtpAnswer
    /\ (pending # <<>>) ~> SendResolved

C9_Witness ==
    /\ SendResolved
    /\ ret.arg = PhoneValidB
    /\ ret.message = <<"OTP sent to ", "0", "9", "9", "*", "*", "*", "*", "4", "3", "2">>

\* C10: a rejected sendOTP changes none of generatedOTP, otpExpiry,
\* countdownInterval, the active timers and the deliveries under way, and an
\* outstanding code inside its window is still accepted after it.
C10_RejectChangesNothing ==
    [][ (ret'.op = "sendOTP" /\ ret'.how # "resolved" /\ ~IsTenAsciiDigits(ret'.arg)) =>
            /\ ret'.how = "rejected"
            /\ UNCHANGED << generatedOTP, otpExpiry, countdownInterval, intervals,
                            pending, now >>
            /\ (generatedOTP # Null /\ now <= Val(otpExpiry)) =>
                  verifyOTP(generatedOTP', otpExpiry', now', Val(generatedOTP)).success
      ]_vars

C10_Witness ==
    /\ ret.op = "sendOTP"
    /\ ret.how = "rejected"
    /\ generatedOTP # Null
    /\ now <= Val(otpExpiry)
    /\ countdownInterval # Null
    /\ intervals # <<>>

\* The failures verifyOTP reports.
VerifyFailures == { MsgNoOtp, MsgExpired, MsgInvalidOtp }

\* A call has ended in failure: verifyOTP returned, or the promise of sendOTP
\* settled, without success.
CallFailed ==
    /\ ret.op \in { "verifyOTP", "sendOTP" }
    /\ ret.how # "pending"
    /\ ~ret.success

\* C11 as stated: every failure of verifyOTP and sendOTP reaches the caller as
\* a result value with a message, never as a thrown error.
C11_FailuresAreResultValues ==
    CallFailed =>
        (ret.how \in { "returned", "resolved" } /\ ret.message # <<>>)

\* C11, amended: a failure of verifyOTP is a returned result object with
\* success false and one of its three messages; the one failure of sendOTP, a
\* phone number that is not 10 ASCII digits, is a rejected promise carrying an
\* Error with the invalid-phone message (thrown at the caller's await), and no
\* promise of sendOTP resolves without success.
C11_VerifyReturnsSendRejects ==
    CallFailed =>
        IF ret.op = "verifyOTP"
        THEN ret.how = "returned" /\ ret.message \in VerifyFailures
        ELSE /\ ret.how = "rejected"
             /\ ret.message = MsgInvalidPhone
             /\ ~IsTenAsciiDigits(ret.arg)

C11_Witness ==
    /\ CallFailed
    /\ ret.op = "sendOTP"
    /\ ret.how = "rejected"
    /\ ret.message = MsgInvalidPhone
    /\ ret.arg = PhoneShort

\* C12: whenever a code is set it is the code of the last generation and
\* otpExpiry is that generation's instant + 300 s; so no step that leaves the
\* code in place (a mismatch, a tick, a rejected sendOTP, the clock) moves it.
C12_ExpiryIsGenerationPlusWindow ==
    generatedOTP # Null =>
        /\ issued # Null
        /\ generatedOTP = Some(Val(issued).code)
        /\ otpExpiry = Some(Val(issued).at + WindowMs)

C12_Witness ==
    /\ generatedOTP # Null
    /\ otpExpiry = Some(Val(issued).at + WindowMs)
    /\ previous # Null
    /\ failed > 0
    /\ now > Val(issued).at
    /\ display # Null
    /\ Val(display) < resendCooldown

\* C13 as stated: a code is set only if a sendOTP has resolved and since then
\* no verifyOTP has succeeded and the code's expiry instant has not passed.
C13_CodeOnlyInsideWindow ==
    generatedOTP # Null =>
        /\ issued # Null
        /\ ~consumed
        /\ now <= Val(issued).at + WindowMs

\* C13, amended: a code is set only if a sendOTP has resolved and since then
\* no verifyOTP has succeeded and no verifyOTP has been made after the code's
\* expiry instant; the passing of the instant alone clears nothing.
C13_CodeOnlyUntilVerifiedOrFoundExpired ==
    generatedOTP # Null =>
        /\ issued # Null
        /\ generatedOTP = Some(Val(issued).code)
        /\ ~consumed
        /\ ~lapsed

C13_Witness ==
    /\ generatedOTP # Null
    /\ ~consumed
    /\ ~lapsed
    /\ now > Val(issued).at + WindowMs
    /\ failed > 0

RECURSIVE DecimalValue(_)
\* The number a string of ASCII digits denotes.
DecimalValue(s) ==
    IF s = <<>> THEN 0
    ELSE 10 * DecimalValue(SubSeq(s, 1, Len(s) - 1))
           + (CHOOSE d \in 0..9 : DigitChars[d + 1] = s[Len(s)])

\* A string of exactly 6 ASCII digits whose value lies in [100000, 999999].
IsSixDigitCode(s) ==
    /\ Len(s) = 6
    /\ \A i \in 1..Len(s) : s[i] \in {"0", "1", "2", "3", "4", "5", "6", "7", "8", "9"}
    /\ s[1] # "0"
    /\ DecimalValue(s) >= 100000
    /\ DecimalValue(s) <= 999999

\* C14: every code generateOTP returns and stores is a string of exactly 6
\* digits with value in [100000, 999999]; generatedOTP is null or such a
\* string.
C14_SixDigitCode ==
    /\ generatedOTP # Null => IsSixDigitCode(Val(generatedOTP))
    /\ ret.op = "generateOTP" =>
          (IsSixDigitCode(ret.message) /\ generatedOTP = Some(ret.message))

C14_Witness ==
    /\ ret.op = "generateOTP"
    /\ generatedOTP = Some(<<"9", "9", "9", "9", "9", "9">>)
    /\ previous = Some(<<"1", "0", "0", "0", "0", "0">>)

\* n, n - 1, ..., 0
CountdownFrom(n) == [ i \in 1..(n + 1) |-> n + 1 - i ]

IsPrefix(s, t) == Len(s) <= Len(t) /\ s = SubSeq(t, 1, Len(s))

\* How often the onComplete given with timer id has run.
Times(id) == Cardinality({ i \in 1..Len(done) : done[i] = id })

\* The countdown started last has had all its ticks.
RanOut == Len(shown) = resendCooldown + 1

\* C15 as stated: a countdown left to run its 60 ticks has written exactly
\* 59, 58, ..., 0 to the sink, and then its onComplete has run exactly once.
C15_SinkGets59To0 ==
    (countdownInterval # Null /\ Times(Val(countdownInterval)) > 0) =>
        /\ shown = Tail(CountdownFrom(resendCooldown))
        /\ Times(Val(countdownInterval)) = 1

\* C15, amended: a countdown neither cancelled nor restarted writes 60 to the
\* sink when it starts and then 59, 58, ..., 0, one value per tick, none
\* skipped or repeated; its onComplete has run exactly once when the 0 is
\* written and not before, and its timer is stopped then.
C15_SinkGets60To0 ==
    countdownInterval # Null =>
        /\ IsPrefix(shown, CountdownFrom(resendCooldown))
        /\ display = Some(shown[Len(shown)])
        /\ Times(Val(countdownInterval)) = IF RanOut THEN 1 ELSE 0
        /\ RanOut => intervals = <<>>

C15_Witness ==
    /\ countdownInterval # Null
    /\ shown = CountdownFrom(resendCooldown)
    /\ done = << Val(countdownInterval) >>
    /\ display = Some(0)

\* C16: once stopCountdown has been called on a running countdown, and until
\* startCountdown is called again, no timer can fire, and no step changes the
\* sink or runs onComplete.
C16_NothingAfterCancel ==
    /\ [](countdownInterval = Null => \A id \in 1..MaxTimers : ~ENABLED Tick(id))
    /\ [][ (countdownInterval = Null /\ countdownInterval' = Null) =>
                UNCHANGED << display, shown, done, completions >> ]_vars

C16_Witness ==
    /\ countdownInterval = Null
    /\ Len(shown) > 1
    /\ Len(shown) <= resendCooldown
    /\ done = <<>>

\* C17: at most one interval timer is active, and an active timer is the one
\* whose handle the session holds.
C17_OneTimerAndHeld ==
    /\ Cardinality(DOMAIN intervals) <= 1
    /\ \A id \in DOMAIN intervals : countdownInterval = Some(id)
    /\ strays = {}

C17_Witness ==
    /\ rearmed # {}
    /\ intervals # <<>>
    /\ Len(shown) > 1
    /\ done = <<>>

\* C18: a countdown that startCountdown replaced while it ran is no longer
\* active, writes nothing to the sink afterwards and its onComplete never runs;
\* the countdown that replaced it starts at the full cooldown of 60 and its
\* onComplete runs exactly once, when it reaches 0.
C18_RearmCancelsEarlier ==
    /\ \A id \in rearmed :
          (id \notin DOMAIN intervals /\ id \notin strays /\ Times(id) = 0)
    /\ (rearmed # {} /\ countdownInterval # Null) =>
          /\ Val(countdownInterval) \notin rearmed
          /\ shown[1] = resendCooldown
          /\ IsPrefix(shown, CountdownFrom(resendCooldown))
          /\ Times(Val(countdownInterval)) = IF RanOut THEN 1 ELSE 0

C18_Witness ==
    /\ rearmed # {}
    /\ countdownInterval # Null
    /\ RanOut
    /\ done = << Val(countdownInterval) >>

\* C19 as stated: after a countdown has completed, been cancelled or been
\* replaced, the session holds no handle of it: a handle held is the handle
\* of a timer still active.
C19_HandleReleasedOnEveryExit ==
    countdownInterval # Null => Val(countdownInterval) \in DOMAIN intervals

\* The run can still hold another delivery timeout for a call made now.
RoomForDelivery ==
    Len(pending) < MaxPending /\ now + SendDelayMs <= LastInstant

IsMaskOf(m, s) ==
    /\ Len(m) = 10
    /\ \A i \in 1..3 : m[i] = s[i]
    /\ \A i \in 4..7 : m[i] = "*"
    /\ \A i \in 8..10 : m[i] = s[i]

\* C21: maskPhoneNumber of a 10-digit number returns its first 3 digits, 4
\* mask characters and its last 3 digits, 10 characters in all, and the call
\* changes nothing of the session.
C21_MaskKeepsEnds ==
    /\ []((ret.op = "maskPhoneNumber" /\ IsTenAsciiDigits(ret.arg)) =>
            IsMaskOf(ret.message, ret.arg))
    /\ [][ ret'.op = "maskPhoneNumber" =>
                UNCHANGED << now, otpVars, pending, countdownVars >> ]_vars

C21_Witness ==
    /\ ret.op = "maskPhoneNumber"
    /\ ret.arg = PhoneValidA
    /\ ret.message = <<"0", "8", "1", "*", "*", "*", "*", "5", "6", "7">>
    /\ generatedOTP # Null
    /\ countdownInterval # Null

\* A verifyOTP made while a sendOTP waits for its delivery.
VerifiedWhilePending == IsVerify /\ pending # <<>>

\* C22: a sendOTP leaves the code and its expiry as they are when it is
\* invoked; a verifyOTP made while it is pending finds the code state of
\* before that call (none, or the code of the last delivery completed) and is
\* judged against it; and the delivery sets the expiry to its own instant +
\* 300 s.
C22_CodeChangesAtDelivery ==
    /\ [][ (ret'.op = "sendOTP" /\ ret'.how = "pending") => UNCHANGED otpVars ]_vars
    /\ [](VerifiedWhilePending =>
            /\ \/ ret.before.generatedOTP = Null
               \/ (issued # Null /\ ret.before.generatedOTP = Some(Val(issued).code)
                                 /\ ret.before.otpExpiry = Some(Val(issued).at + WindowMs))
            /\ LET v == verifyOTP(ret.before.generatedOTP, ret.before.otpExpiry,
                                  now, ret.arg)
               IN  ret.success = v.success /\ ret.message = v.message
                                           /\ generatedOTP = v.code)
    /\ []((ret.op = "sendOTP" /\ ret.how = "resolved") =>
            (generatedOTP # Null /\ otpExpiry = Some(now + WindowMs)))

C22_Witness ==
    /\ VerifiedWhilePending
    /\ ret.success
    /\ ret.arg = Val(issued).code
    /\ now >= Head(pending).due
    /\ now > Head(pending).due - SendDelayMs

\* Every sendOTP has resolved, and the one that resolved last had been invoked
\* while the one before it was still pending.
OverlapResolved == raced /\ pending = <<>>

\* C23: when overlapping sendOTP calls have all resolved, the code set is the
\* one generated by the call that resolved last, with its expiry; at that
\* moment verifyOTP accepts that code and no other value; and from then on a
\* verifyOTP succeeds only for that code, so the code of the call that
\* resolved before it, if it differs, fails.
C23_LastWriteWins ==
    /\ (OverlapResolved /\ ret.op = "sendOTP" /\ ret.how = "resolved") =>
          /\ previous # Null
          /\ generatedOTP = Some(Val(issued).code)
          /\ otpExpiry = Some(now + WindowMs)
          /\ \A enteredOTP \in Entered :
                verifyOTP(generatedOTP, otpExpiry, now, enteredOTP).success
                    <=> (enteredOTP = Val(issued).code)
    /\ (OverlapResolved /\ IsVerify) =>
          /\ ret.success => ret.arg = Val(issued).code
          /\ (ret.arg = Val(previous) /\ Val(previous) # Val(issued).code) => ~ret.success

C23_Witness ==
    /\ OverlapResolved
    /\ IsVerify
    /\ ret.arg = Val(previous)
    /\ Val(previous) # Val(issued).code
    /\ ret.message = MsgInvalidOtp

\* C24: a call of sendOTP or verifyOTP, whatever its outcome, and a delivery
\* leave the countdown, its timers and its handle as they are; and a step that
\* changes any of these (startCountdown, stopCountdown, a tick) leaves
\* generatedOTP and otpExpiry as they are.
C24_CodeAndCountdownIndependent ==
    [][ /\ ret'.op \in { "sendOTP", "verifyOTP" } => UNCHANGED countdownVars
        /\ countdownVars' # countdownVars => UNCHANGED otpVars ]_vars

C24_Witness ==
    /\ IsVerify
    /\ ret.success
    /\ pending = <<>>
    /\ countdownInterval # Null
    /\ intervals # <<>>
    /\ display # Null
    /\ Val(display) < resendCooldown

\* C25: every value written to the display is between 0 and 60, and once the
\* onComplete of a timer has run that timer fires no more: the last value
\* written by it is 0.
C25_DisplayWithinCooldown ==
    /\ \A i \in 1..Len(shown) : shown[i] >= 0 /\ shown[i] <= resendCooldown
    /\ display # Null => (Val(display) >= 0 /\ Val(display) <= resendCooldown)
    /\ \A i \in 1..Len(done) : done[i] \notin DOMAIN intervals
    /\ \A id \in 1..MaxTimers : Times(id) <= 1
    /\ (countdownInterval # Null /\ Times(Val(countdownInterval)) > 0) =>
          (shown[Len(shown)] = 0 /\ display = Some(0))

C25_Witness ==
    /\ Len(done) > 1
    /\ display = Some(0)
    /\ intervals = <<>>
    /\ shown[Len(shown)] = 0

\* The last submit went past the OTP check: to the user lookup, the password
\* check or the stored session.
PassedOtp == submission.stage \in { "noUser", "badPassword", "loggedIn" }

\* C26: a submit that reaches the user lookup, the password check or the
\* stored session has called verifyOTP and got success; the session is stored
\* only in such a step; a successful verifyOTP leaves no code; and a submit
\* of the same code after one that passed the OTP check and failed on the
\* user or the password, no code delivered in between, stops at the OTP check
\* with the no-OTP message.
C26_LookupOnlyAfterVerified ==
    /\ [](PassedOtp => submission.otpResult = Some(TRUE))
    /\ [][ session' # session =>
              /\ ret'.op = "verifyOTP"
              /\ ret'.success
              /\ submission'.stage = "loggedIn" ]_vars
    /\ [][ (ret'.op = "verifyOTP" /\ ret'.success) =>
              (generatedOTP' = Null /\ submission'.otpResult = Some(TRUE)) ]_vars
    /\ [][ (ret'.op = "verifyOTP" /\ submission.stage \in { "noUser", "badPassword" }
                                  /\ consumed /\ ret'.arg = Val(issued).code) =>
              /\ ~ret'.success
              /\ ret'.message = MsgNoOtp
              /\ submission'.stage = "otpFailed" ]_vars

C26_Witness ==
    /\ submission.stage = "otpFailed"
    /\ submission.retry
    /\ IsVerify
    /\ ret.message = MsgNoOtp
    /\ ret.arg = Val(issued).code
    /\ consumed

\* C27: the send button is disabled exactly while a sendOTP made by a click is
\* pending or the countdown started on its success is running; so at most one
\* sendOTP is pending, and none is while a countdown runs.
C27_ButtonDisabledWhileBusy ==
    /\ sendOtpBtnDisabled <=> (pending # <<>> \/ intervals # <<>>)
    /\ Len(pending) <= 1
    /\ pending # <<>> => intervals = <<>>

C27_Witness ==
    /\ sendOtpBtnDisabled
    /\ pending # <<>>
    /\ done # <<>>
    /\ otpSent

\* C28: a button disabled by a click is enabled again in the end; a click
\* whose sendOTP is rejected leaves it enabled at once; and otherwise it is
\* enabled in the tick that writes 0 and runs the completion callback.
C28_ButtonEnabledAgain ==
    /\ sendOtpBtnDisabled ~> ~sendOtpBtnDisabled
    /\ [][ (ret'.op = "sendOTP" /\ ret'.how = "rejected") => ~sendOtpBtnDisabled' ]_vars
    /\ [][ (sendOtpBtnDisabled /\ ~sendOtpBtnDisabled') =>
              (completions' = completions + 1 /\ display' = Some(0)) ]_vars

C28_Witness ==
    /\ ~sendOtpBtnDisabled
    /\ otpSent
    /\ display = Some(0)
    /\ Len(done) = 1
    /\ Len(shown) = resendCooldown + 1

\* The verifyOTP call kept in the notes.
NotedCall == Val(Val(noted).call)

\* The verifyOTP call of this step was given what the noted call was given:
\* the entered value, the stored code, the stored expiry and the clock.
SameAsNoted ==
    /\ IsVerify
    /\ noted # Null
    /\ Val(noted).call # Null
    /\ ret.arg = NotedCall.entered
    /\ ret.before.generatedOTP = NotedCall.code
    /\ ret.before.otpExpiry = NotedCall.expiry
    /\ now = NotedCall.at

====
